---- MODULE Spec2Model ----
(***************************************************************************)
(* Ticket analytics dashboards of bau-dash (app.py, app2.py, backup.py):   *)
(* load_data normalises the rows of a CSV export, the global filters       *)
(* subset the normalised records, and one script run (a "pass") derives    *)
(* the SLA, penalty and aggregate tables from the filtered records.        *)
(*                                                                         *)
(* Units.  Timestamps are seconds.  Resolution_Days holds seconds, i.e.    *)
(* days * SecondsPerDay; Resolution_Hours holds Resolution_Days * 24, i.e. *)
(* hours * SecondsPerDay.  Money is in mills (1/1000 dollar), so that      *)
(* at_risk_amount * pct / 100 is exact for a whole-dollar service charge.  *)
(* A float that can be NaN is a record [nan, v]; a ratio of two counts is  *)
(* a record [n, d] (d = 0 is the float inf or NaN of a division by zero).  *)
(***************************************************************************)
EXTENDS Integers, Sequences, FiniteSets, TLC

\* ------------------------------------------------------------------ bounds
MaxRows == 3
MaxBulk == 22

\* --------------------------------------------------------------- constants
STATE_ACTIVE == "Active"
STATE_WIP == "Work In Progress"
STATE_AWAITING_USER == "Awaiting User Info"
STATE_NEW == "New"
STATE_CLOSED == "Closed"
STATE_RESOLVED == "Resolved"
STATE_CANCELLED == "Cancelled"

OPEN_STATES == {STATE_ACTIVE, STATE_WIP, STATE_AWAITING_USER, STATE_NEW}
CLOSED_STATES == {STATE_CLOSED, STATE_RESOLVED, STATE_CANCELLED}

COL_SR_RESULT == "SR Result"

BaseColumns ==
    {"Number", "Opened", "Resolved", "Priority", "State", "Assignment group",
     "Assigned to", "Short description", "Channel", "Location", "Categorization",
     "Configuration item"}

Variants == {"app", "app2", "backup"}

SecondsPerDay == 24 * 3600
MillsPerDollar == 1000
DefaultServiceCharge == 187290

\* an empty CSV cell: NaT for a timestamp, NaN for a number or a string
NaT == -1
NoNumber == 0
NoValue == ""

NaN == [nan |-> TRUE, v |-> 0]
Num(x) == [nan |-> FALSE, v |-> x]

\* timestamps count the seconds since 2024-01-01 00:00
EpochYear == 2024

\* datetime.now() of the data quality checks: 2025-02-04 00:00
Now == 400 * SecondsPerDay

CI_NOTFOUND == "CI_notfound"

\* ------------------------------------------------------------ float helpers
\* a + b on floats that may be NaN
FAdd(a, b) == IF a.nan \/ b.nan THEN NaN ELSE Num(a.v + b.v)

\* amount * (pct / 100), amount an exact number of mills, pct possibly NaN
MulPct(amount, pct) == IF pct.nan THEN NaN ELSE Num((amount * pct.v) \div 100)

RECURSIVE FSum(_)
FSum(s) == IF s = << >> THEN Num(0) ELSE FAdd(FSum(Tail(s)), Head(s))

RECURSIVE ISum(_)
ISum(s) == IF s = << >> THEN 0 ELSE Head(s) + ISum(Tail(s))

\* rate < pct/100 for a ratio of counts with a positive denominator
RateBelow(r, pct) == r.n * 100 < pct * r.d

RateAtLeast(r, pct) == r.n * 100 >= pct * r.d

Count(s, P(_)) == Cardinality({i \in 1..Len(s) : P(s[i])})

\* Series.mean() of a boolean column: number of True over number of rows
MeanSlaMet(s) == [n |-> Count(s, LAMBDA r : r.SLA_Met), d |-> Len(s)]

\* ascending sequence of the elements of a finite set of integers
RECURSIVE SortedSeq(_)
SortedSeq(S) ==
    IF S = {} THEN << >>
    ELSE LET m == CHOOSE x \in S : \A y \in S : x <= y
         IN  <<m>> \o SortedSeq(S \ {m})

\* df[mask]: the rows at the positions of I, in their order
Subframe(df, I) ==
    LET at == SortedSeq(I)
    IN  [k \in 1..Len(at) |-> df[at[k]]]

\* isna() | (== "") of a text cell
IsMissing(value) == value = NoValue

\* ------------------------------------------------- priority digit extraction
Digits == {"0", "1", "2", "3", "4", "5", "6", "7", "8", "9"}

DigitValue(c) ==
    CASE c = "0" -> 0 [] c = "1" -> 1 [] c = "2" -> 2 [] c = "3" -> 3
      [] c = "4" -> 4 [] c = "5" -> 5 [] c = "6" -> 6 [] c = "7" -> 7
      [] c = "8" -> 8 [] c = "9" -> 9

\* position of the first digit of a label, 0 when it has none
FirstDigit(label) ==
    IF \E i \in 1..Len(label) : label[i] \in Digits
    THEN CHOOSE i \in 1..Len(label) :
            /\ label[i] \in Digits
            /\ \A j \in 1..(i - 1) : label[j] \notin Digits
    ELSE 0

\* last position of the run of digits that starts at position i
RunEnd(label, i) ==
    CHOOSE j \in i..Len(label) :
        /\ \A k \in i..j : label[k] \in Digits
        /\ (j = Len(label) \/ label[j + 1] \notin Digits)

RECURSIVE DigitsToInt(_, _, _)
DigitsToInt(label, i, j) ==
    IF j < i THEN 0 ELSE DigitsToInt(label, i, j - 1) * 10 + DigitValue(label[j])

\* Series.str.extract(r'(\d+)'): the first run of digits, NaN when none
str_extract(label) ==
    LET i == FirstDigit(label)
    IN  IF i = 0 THEN NaN ELSE Num(DigitsToInt(label, i, RunEnd(label, i)))

\* ----------------------------------------------------------- year and month
DigitChar(d) == <<"0", "1", "2", "3", "4", "5", "6", "7", "8", "9">>[d + 1]

IsLeapYear(y) == (y % 4 = 0 /\ y % 100 # 0) \/ y % 400 = 0

DaysInMonth(y, m) ==
    IF m = 2 THEN (IF IsLeapYear(y) THEN 29 ELSE 28)
    ELSE IF m \in {4, 6, 9, 11} THEN 30 ELSE 31

\* the calendar month that holds the given day, counted from the first day
\* of month m of year y
RECURSIVE PeriodOf(_, _, _)
PeriodOf(day, y, m) ==
    IF day < DaysInMonth(y, m) THEN [year |-> y, month |-> m]
    ELSE PeriodOf(day - DaysInMonth(y, m),
                  IF m = 12 THEN y + 1 ELSE y,
                  IF m = 12 THEN 1 ELSE m + 1)

NaTString == <<"N", "a", "T">>

\* Series.dt.to_period("M").astype(str): "YYYY-MM", and "NaT" for a missing
\* timestamp
to_period_str(t) ==
    IF t = NaT THEN NaTString
    ELSE LET p == PeriodOf(t \div SecondsPerDay, EpochYear, 1)
         IN  << DigitChar(p.year \div 1000), DigitChar((p.year \div 100) % 10),
                DigitChar((p.year \div 10) % 10), DigitChar(p.year % 10), "-",
                DigitChar(p.month \div 10), DigitChar(p.month % 10) >>

\* ------------------------------------------------------------ string order
\* the characters of the year-month strings in code point order
CodePoints == <<"-", "0", "1", "2", "3", "4", "5", "6", "7", "8", "9", "N", "T", "a">>

CodePoint(c) == CHOOSE i \in 1..Len(CodePoints) : CodePoints[i] = c

\* a < b for two strings given as sequences of characters
RECURSIVE StrLess(_, _)
StrLess(a, b) ==
    IF b = << >> THEN FALSE
    ELSE IF a = << >> THEN TRUE
    ELSE IF Head(a) # Head(b) THEN CodePoint(Head(a)) < CodePoint(Head(b))
    ELSE StrLess(Tail(a), Tail(b))

\* sorted(S) for a set of strings given as sequences of characters
RECURSIVE SortedStrings(_)
SortedStrings(S) ==
    IF S = {} THEN << >>
    ELSE LET m == CHOOSE x \in S : \A y \in S \ {x} : StrLess(x, y)
         IN  <<m>> \o SortedStrings(S \ {m})

\* the names used in the exports, in lexicographic order
NameOrder ==
    << "", "Agent A", "Agent B", "Email", "Hardware", "L01", "L02", "L03", "L04",
       "L05", "L06", "L07", "L08", "L09", "L10", "L11", "Network", "Phone",
       "Service Desk", "Software" >>

NameRank(name) == CHOOSE i \in 1..Len(NameOrder) : NameOrder[i] = name

\* the names of a set in ascending order, as groupby lists its keys
RECURSIVE SortedNames(_)
SortedNames(S) ==
    IF S = {} THEN << >>
    ELSE LET m == CHOOSE x \in S : \A y \in S : NameRank(x) <= NameRank(y)
         IN  <<m>> \o SortedNames(S \ {m})

\* ------------------------------------------------------------ configuration
\* Series.map(dict): NaN for a key the dict does not have
MapRank(dict, rank) == IF rank \in DOMAIN dict THEN Num(dict[rank]) ELSE NaN

GenericTargets == (1 :> 4) @@ (2 :> 8) @@ (3 :> 24) @@ (4 :> 72)
\* variant of BumaTargets with 16 hours for rank 4
BumaTargets_p4_short == (1 :> 4) @@ (2 :> 8) @@ (3 :> 40) @@ (4 :> 16)

\* targets of the contract dashboard
BumaTargets == (1 :> 4) @@ (2 :> 8) @@ (3 :> 40) @@ (4 :> 160)
ResolutionCredit == (1 :> 18) @@ (2 :> 12) @@ (3 :> 10) @@ (4 :> 6)
ResponseCredit == (1 :> 8) @@ (2 :> 5) @@ (3 :> 4) @@ (4 :> 3)

\* variant of SlaTargets with the generic targets in every dashboard
SlaTargets_generic(variant) == GenericTargets

SlaTargets(variant) == IF variant = "app2" THEN BumaTargets ELSE GenericTargets

\* ---------------------------------------------------------------- load_data
\* variant of sla_met with a strict comparison
sla_met_strict(hours, target) ==
    /\ ~hours.nan
    /\ ~target.nan
    /\ hours.v < target.v * SecondsPerDay

\* Resolution_Hours <= SLA_Target_Hours; a comparison with NaN is False
sla_met(hours, target) ==
    /\ ~hours.nan
    /\ ~target.nan
    /\ hours.v <= target.v * SecondsPerDay

\* one row of the frame load_data returns
Normalize(variant, row) ==
    LET rank == str_extract(row.Priority).v
        days == IF row.Opened = NaT \/ row.Resolved = NaT
                THEN NaN ELSE Num(row.Resolved - row.Opened)
        target == MapRank(SlaTargets(variant), rank)
        hours == IF days.nan THEN NaN ELSE Num(days.v * 24)
    IN  [Number |-> row.Number, Opened |-> row.Opened, Resolved |-> row.Resolved,
         Priority |-> row.Priority, State |-> row.State, Group |-> row.Group,
         SR |-> row.SR,
         AssignedTo |-> row.AssignedTo, ShortDesc |-> row.ShortDesc,
         Channel |-> row.Channel, Location |-> row.Location,
         Categorization |-> row.Categorization, ConfigItem |-> row.ConfigItem,
         YearMonth |-> to_period_str(row.Opened),
         Priority_Numeric |-> rank,
         Resolution_Days |-> days,
         SLA_Target_Hours |-> target,
         Resolution_Hours |-> hours,
         SLA_Met |-> sla_met(hours, target),
         Resolution_Credit_Pct |->
             IF variant = "app2" THEN MapRank(ResolutionCredit, rank) ELSE NaN,
         Response_Credit_Pct |->
             IF variant = "app2" THEN MapRank(ResponseCredit, rank) ELSE NaN]

\* astype(int) raises when str.extract left a NaN in any row
load_data(variant, rows) ==
    IF \E i \in 1..Len(rows) : str_extract(rows[i].Priority).nan
    THEN [ok |-> FALSE, error |-> "ValueError", df |-> << >>]
    ELSE [ok |-> TRUE, error |-> "none",
          df |-> [i \in 1..Len(rows) |-> Normalize(variant, rows[i])]]

NotLoaded == [ok |-> FALSE, error |-> "not loaded", df |-> << >>]

\* ------------------------------------------------------------ global filters
NoSelection == [states |-> {}, priorities |-> {}, groups |-> {}]

\* options of the three multiselect widgets
StateOptions(variant, df) ==
    {df[i].State : i \in 1..Len(df)} \ (IF variant = "backup" THEN {} ELSE {NoValue})

PriorityOptions(df) == {df[i].Priority : i \in 1..Len(df)}

GroupOptions(variant, df) ==
    {df[i].Group : i \in 1..Len(df)} \ (IF variant = "backup" THEN {} ELSE {NoValue})

\* variant of ApplyFilters that applies each filter even when its selection
\* is empty
ApplyFilters_no_skip(df, sel) ==
    SelectSeq(df, LAMBDA r : /\ r.State \in sel.states
                             /\ r.Priority \in sel.priorities
                             /\ r.Group \in sel.groups)

\* the three isin() filters, each skipped when its selection is empty
ApplyFilters(df, sel) ==
    LET byState == IF sel.states # {}
                   THEN SelectSeq(df, LAMBDA r : r.State \in sel.states)
                   ELSE df
        byPriority == IF sel.priorities # {}
                      THEN SelectSeq(byState, LAMBDA r : r.Priority \in sel.priorities)
                      ELSE byState
    IN  IF sel.groups # {}
        THEN SelectSeq(byPriority, LAMBDA r : r.Group \in sel.groups)
        ELSE byPriority

\* ------------------------------------------------------ aggregate tables
\* groupby(COL_PRIORITY).agg(count of Number, sum of SLA_Met); app and app2
\* take the ratio when the counts sum to a positive number and write 0.0
\* otherwise, backup always takes the ratio
sla_compliance_table(variant, filtered) ==
    LET labels == {filtered[i].Priority : i \in 1..Len(filtered)}
        total(l) == Count(filtered, LAMBDA r : r.Priority = l /\ r.Number # NoNumber)
        met(l) == Count(filtered, LAMBDA r : r.Priority = l /\ r.SLA_Met)
        counted == Count(filtered, LAMBDA r : r.Number # NoNumber)
    IN  [l \in labels |->
            [Total_Tickets |-> total(l),
             SLA_Met_Count |-> met(l),
             SLA_Compliance |-> IF variant = "backup" \/ counted > 0
                                THEN [n |-> met(l), d |-> total(l)]
                                ELSE [n |-> 0, d |-> 1]]]

\* groupby(COL_ASSIGNMENT_GROUP).agg(count of Number, mean of SLA_Met); rows
\* with an empty group are dropped by groupby
group_perf_table(filtered) ==
    LET groups == {filtered[i].Group : i \in 1..Len(filtered)} \ {NoValue}
        of(g) == SelectSeq(filtered, LAMBDA r : r.Group = g)
    IN  [g \in groups |->
            [Tickets |-> Count(of(g), LAMBDA r : r.Number # NoNumber),
             SLA_Compliance |-> MeanSlaMet(of(g))]]

\* the states backup counts as open
BACKUP_OPEN_STATES == {"Active", "Work In Progress", "Awaiting User Info"}

\* the "Open Tickets" metric: app and app2 test the state against OPEN_STATES,
\* backup against its own list
open_tickets(variant, filtered_df) ==
    LET open == IF variant = "backup" THEN BACKUP_OPEN_STATES ELSE OPEN_STATES
    IN  Count(filtered_df, LAMBDA r : r.State \in open)

\* mean of SLA_Met when there is a row, else 0
overall_sla_metric(filtered) ==
    IF Len(filtered) > 0 THEN MeanSlaMet(filtered) ELSE [n |-> 0, d |-> 1]

\* Resolution_Days.mean() when there is a row, else 0: the mean skips NaN and
\* is the ratio n / d of the sum and the number of defined durations
avg_resolution_days(filtered_df) ==
    LET defined == SelectSeq(filtered_df, LAMBDA r : ~r.Resolution_Days.nan)
    IN  IF Len(filtered_df) > 0
        THEN [n |-> ISum([i \in 1..Len(defined) |-> defined[i].Resolution_Days.v]),
              d |-> Len(defined)]
        ELSE [n |-> 0, d |-> 1]

\* groupby(YearMonth).size() followed by sort_values(YearMonth)
monthly_tickets(filtered_df) ==
    LET months == SortedStrings({filtered_df[i].YearMonth : i \in 1..Len(filtered_df)})
    IN  [k \in 1..Len(months) |->
            [YearMonth |-> months[k],
             Tickets |-> Count(filtered_df, LAMBDA r : r.YearMonth = months[k])]]

\* ---------------------------------------------------- monthly channel pivot
GRAND_TOTAL == "Grand Total"

\* dropna(subset=[Channel]).groupby([YearMonth, Channel]).size(): one count
\* for each pair that occurs
channel_monthly(filtered_df) ==
    LET kept == SelectSeq(filtered_df, LAMBDA r : ~IsMissing(r.Channel))
        pairs == {<<kept[i].YearMonth, kept[i].Channel>> : i \in 1..Len(kept)}
    IN  [p \in pairs |->
            Count(kept, LAMBDA r : r.YearMonth = p[1] /\ r.Channel = p[2])]

\* variant of pivot_table that leaves out the cells of the absent pairs
pivot_table_nofill(monthly) ==
    LET channels == {p[2] : p \in DOMAIN monthly}
    IN  [c \in channels |->
            [m \in {p[1] : p \in {q \in DOMAIN monthly : q[2] = c}} |->
                monthly[<<m, c>>]]]

\* pivot_table(index=Channel, columns=YearMonth, fill_value=0)
pivot_table(monthly) ==
    LET channels == {p[2] : p \in DOMAIN monthly}
        months == {p[1] : p \in DOMAIN monthly}
    IN  [c \in channels |->
            [m \in months |->
                IF <<m, c>> \in DOMAIN monthly THEN monthly[<<m, c>>] ELSE 0]]

\* DataFrame.sum() over the cells of the given rows and columns; sum skips
\* the missing cells
RECURSIVE CellSum(_, _, _)
CellSum(cell, names, months) ==
    IF names = {} \/ months = {} THEN 0
    ELSE LET c == CHOOSE x \in names : TRUE
             m == CHOOSE x \in months : TRUE
         IN  (IF m \in DOMAIN cell[c] THEN cell[c][m] ELSE 0)
             + CellSum(cell, {c}, months \ {m})
             + CellSum(cell, names \ {c}, months)

\* variant of grand_total_row that shows the largest value of each column
grand_total_row_max(cell, columns) ==
    [m \in columns |->
        CHOOSE v \in {CellSum(cell, {c}, {m}) : c \in DOMAIN cell} :
            \A c \in DOMAIN cell : CellSum(cell, {c}, {m}) <= v]

\* channel_pivot.sum(): the sum of each month column over the channel rows
grand_total_row(cell, columns) ==
    [m \in columns |-> CellSum(cell, DOMAIN cell, {m})]

\* the outcomes of sort_values on equal values: the default quicksort is not
\* stable, the ties keep their order or come out reversed with the build
SortOutcomes == {"kept", "reversed"}

\* positions of a sequence of numbers in descending order of the numbers
RECURSIVE ArgsortDesc(_, _, _)
ArgsortDesc(values, I, tie) ==
    IF I = {} THEN << >>
    ELSE LET top == {i \in I : \A j \in I : values[j] <= values[i]}
             pick == IF tie = "kept"
                     THEN CHOOSE i \in top : \A j \in top : i <= j
                     ELSE CHOOSE i \in top : \A j \in top : j <= i
         IN  <<pick>> \o ArgsortDesc(values, I \ {pick}, tie)

NoPivot == [shown |-> FALSE, index |-> << >>, columns |-> << >>, cell |-> << >>]

\* the table "Ticket Channel Breakdown by Month"; app lists the channels by
\* name, app2 by their total, and both append the Grand Total row
channel_pivot_with_total(variant, filtered_df, tie) ==
    LET monthly == channel_monthly(filtered_df)
        cell == pivot_table(monthly)
        columns == SortedStrings({p[1] : p \in DOMAIN monthly})
        months == {p[1] : p \in DOMAIN monthly}
        byName == SortedNames(DOMAIN cell)
        total == [k \in 1..Len(byName) |-> CellSum(cell, {byName[k]}, months)]
        order == ArgsortDesc(total, 1..Len(byName), tie)
        index == IF variant = "app2"
                 THEN [k \in 1..Len(byName) |-> byName[order[k]]]
                 ELSE byName
    IN  IF variant = "backup" \/ Len(filtered_df) = 0 \/ DOMAIN monthly = {}
        THEN NoPivot
        ELSE [shown |-> TRUE,
              index |-> Append(index, GRAND_TOTAL),
              columns |-> columns,
              cell |-> [l \in DOMAIN cell \cup {GRAND_TOTAL} |->
                          IF l = GRAND_TOTAL THEN grand_total_row(cell, months)
                          ELSE cell[l]]]

\* -------------------------------------------------------- ranking tables
\* the first n rows of a table
head(table, n) == SubSeq(table, 1, IF n < Len(table) THEN n ELSE Len(table))

\* sort_values("Tickets", ascending=False)
sort_values_desc(table, tie) ==
    LET order == ArgsortDesc([k \in 1..Len(table) |-> table[k].Tickets],
                             1..Len(table), tie)
    IN  [k \in 1..Len(table) |-> table[order[k]]]

\* nlargest(n, "Tickets"): equal values in the order of their first occurrence
nlargest(table, n) == head(sort_values_desc(table, "kept"), n)

\* groupby(key).size(): one row for each key in ascending order, the rows
\* with an empty key dropped
groupby_size(keys) ==
    LET names == SortedNames({keys[i] : i \in 1..Len(keys)} \ {NoValue})
    IN  [k \in 1..Len(names) |->
            [Key |-> names[k],
             Tickets |-> Cardinality({i \in 1..Len(keys) : keys[i] = names[k]})]]

\* groupby(key).agg(Tickets=(Number, "count"), SLA_Compliance=(SLA_Met, "mean"))
groupby_perf(keys, df) ==
    LET names == SortedNames({keys[i] : i \in 1..Len(keys)} \ {NoValue})
        of(name) == Subframe(df, {i \in 1..Len(keys) : keys[i] = name})
    IN  [k \in 1..Len(names) |->
            [Key |-> names[k],
             Tickets |-> Count(of(names[k]), LAMBDA r : r.Number # NoNumber),
             SLA_Compliance |-> MeanSlaMet(of(names[k]))]]

\* the assignment groups by ticket count; the view shows its first 15 rows
group_perf(filtered_df, tie) ==
    sort_values_desc(groupby_perf([i \in 1..Len(filtered_df) |-> filtered_df[i].Group],
                                  filtered_df), tie)

\* Top 20 assignees
assignee_perf(filtered_df, tie) ==
    head(sort_values_desc(
             groupby_perf([i \in 1..Len(filtered_df) |-> filtered_df[i].AssignedTo],
                          filtered_df), tie), 20)

\* ticket distribution by channel
channel_dist(filtered_df) ==
    groupby_size([i \in 1..Len(filtered_df) |-> filtered_df[i].Channel])

\* Top 10 locations: app and app2 take the 10 largest counts, backup takes
\* the first 10 rows of the groupby
location_dist(variant, filtered_df) ==
    LET by_location ==
            groupby_size([i \in 1..Len(filtered_df) |-> filtered_df[i].Location])
    IN  IF variant = "backup" THEN head(by_location, 10) ELSE nlargest(by_location, 10)

\* the categories by ticket count; the chart shows its first 15 rows
cat_summary(filtered_df, tie) ==
    sort_values_desc(
        groupby_size([i \in 1..Len(filtered_df) |-> filtered_df[i].Categorization]),
        tie)

\* --------------------------------------------------- data quality checks
\* informational: Active or Work In Progress without a resolution date
unresolved_active(df) ==
    SelectSeq(df, LAMBDA r : r.Resolved = NaT /\ r.State \in {STATE_ACTIVE, STATE_WIP})

\* informational: configuration item empty or "CI_notfound"
missing_ci(df) ==
    SelectSeq(df, LAMBDA r : IsMissing(r.ConfigItem) \/ r.ConfigItem = CI_NOTFOUND)

\* Resolution_Days < 0 or > 365; a comparison with NaN is False
unusual_resolution(df) ==
    SelectSeq(df, LAMBDA r : /\ ~r.Resolution_Days.nan
                             /\ \/ r.Resolution_Days.v < 0
                                \/ r.Resolution_Days.v > 365 * SecondsPerDay)

no_open_but_resolved(df) ==
    SelectSeq(df, LAMBDA r : r.Opened = NaT /\ r.Resolved # NaT)

closed_no_resolution(df) ==
    SelectSeq(df, LAMBDA r : r.State \in CLOSED_STATES /\ r.Resolved = NaT)

open_but_resolved(df) ==
    SelectSeq(df, LAMBDA r : r.State \in OPEN_STATES /\ r.Resolved # NaT)

\* total_missing: one count per critical field and ticket with the field empty
check_missing_critical_fields(df) ==
    Count(df, LAMBDA r : r.Priority = << >>)
    + Count(df, LAMBDA r : IsMissing(r.Group))
    + Count(df, LAMBDA r : IsMissing(r.AssignedTo))
    + Count(df, LAMBDA r : IsMissing(r.ShortDesc))
    + Count(df, LAMBDA r : IsMissing(r.State))

\* variant of duplicate_tickets that keeps the first occurrence unflagged
duplicate_tickets_extras(df) ==
    Subframe(df, {i \in 1..Len(df) :
                     \E j \in 1..(i - 1) : df[j].Number = df[i].Number})

\* df.duplicated(subset=[Number], keep=False): every row whose Number is
\* also the Number of another row; two empty Number cells are equal
duplicate_tickets(df) ==
    Subframe(df, {i \in 1..Len(df) :
                     \E j \in 1..Len(df) : j # i /\ df[j].Number = df[i].Number})

future_opened(df) == SelectSeq(df, LAMBDA r : r.Opened # NaT /\ r.Opened > Now)

future_resolved(df) == SelectSeq(df, LAMBDA r : r.Resolved # NaT /\ r.Resolved > Now)

\* total_future = len(future_opened) + len(future_resolved)
check_future_dates(df) == Len(future_opened(df)) + Len(future_resolved(df))

orphaned_tickets(df) ==
    SelectSeq(df, LAMBDA r : /\ IsMissing(r.Group)
                             /\ IsMissing(r.AssignedTo)
                             /\ r.State \in OPEN_STATES)

\* variant of quality_score without the clamp at zero
quality_score_unclamped(issue_count, total_tickets) ==
    [n |-> 100 * total_tickets - 100 * issue_count, d |-> total_tickets]

\* max(0, 100 - issue_count / total_tickets * 100) as the ratio n / d
quality_score(issue_count, total_tickets) ==
    LET raw == 100 * total_tickets - 100 * issue_count
    IN  [n |-> IF raw > 0 THEN raw ELSE 0, d |-> total_tickets]

NoQualityTab ==
    [shown |-> FALSE, unresolved_active |-> 0, missing_ci |-> 0,
     unusual_resolution |-> 0, resolved_without_opened |-> 0,
     closed_without_resolution |-> 0, open_with_resolution |-> 0,
     missing_critical_fields |-> 0, duplicate_tickets |-> << >>,
     future_dates |-> 0, orphaned_tickets |-> 0,
     quality_issues_count |-> 0, quality_score |-> [n |-> 0, d |-> 1]]

\* the data quality tab of app and app2; it returns at once without tickets
render_quality_tab(filtered_df) ==
    LET total_tickets_dq == Len(filtered_df)
        quality_issues_count ==
            Len(unusual_resolution(filtered_df))
            + Len(no_open_but_resolved(filtered_df))
            + Len(closed_no_resolution(filtered_df))
            + Len(open_but_resolved(filtered_df))
            + check_missing_critical_fields(filtered_df)
            + Len(duplicate_tickets(filtered_df))
            + check_future_dates(filtered_df)
            + Len(orphaned_tickets(filtered_df))
    IN  IF Len(filtered_df) = 0 THEN NoQualityTab
        ELSE [shown |-> TRUE,
              unresolved_active |-> Len(unresolved_active(filtered_df)),
              missing_ci |-> Len(missing_ci(filtered_df)),
              unusual_resolution |-> Len(unusual_resolution(filtered_df)),
              resolved_without_opened |-> Len(no_open_but_resolved(filtered_df)),
              closed_without_resolution |-> Len(closed_no_resolution(filtered_df)),
              open_with_resolution |-> Len(open_but_resolved(filtered_df)),
              missing_critical_fields |-> check_missing_critical_fields(filtered_df),
              duplicate_tickets |-> duplicate_tickets(filtered_df),
              future_dates |-> check_future_dates(filtered_df),
              orphaned_tickets |-> Len(orphaned_tickets(filtered_df)),
              quality_issues_count |-> quality_issues_count,
              quality_score |-> quality_score(quality_issues_count, total_tickets_dq)]

\* ------------------------------------------------- contract SLA tab (app2)
\* monthly_service_charge * 0.10, in mills
at_risk_amount(charge) == (charge * MillsPerDollar) \div 10

\* f"${x:,.2f}" read back with float(): x rounded to the cent.  A half cent
\* goes either way with the binary value of x; ServiceCharges yields none.
FormatMoney(mills) ==
    IF mills % 10 < 5 THEN (mills \div 10) * 10 ELSE (mills \div 10 + 1) * 10

\* variant of observed_ranks that visits the ranks in descending order
observed_ranks_reversed(filtered) ==
    LET asc == SortedSeq({filtered[i].Priority_Numeric : i \in 1..Len(filtered)})
    IN  [i \in 1..Len(asc) |-> asc[Len(asc) + 1 - i]]

\* the ranks the loop of the tab visits: sorted(unique(Priority_Numeric))
observed_ranks(filtered) ==
    SortedSeq({filtered[i].Priority_Numeric : i \in 1..Len(filtered)})

\* variant of resolution_penalty that also penalises a compliance of 0.90
resolution_penalty_inclusive(resolution_compliance, at_risk, resolution_credit_pct) ==
    IF resolution_compliance.n * 100 <= 90 * resolution_compliance.d
    THEN MulPct(at_risk, resolution_credit_pct)
    ELSE Num(0)

\* 0 unless the compliance is below the minimum target 0.90
resolution_penalty(resolution_compliance, at_risk, resolution_credit_pct) ==
    IF RateBelow(resolution_compliance, 90)
    THEN MulPct(at_risk, resolution_credit_pct)
    ELSE Num(0)

\* variant of rca_penalty that also penalises a compliance of 0.95
rca_penalty_strict(rca_compliance, at_risk, priority_num) ==
    LET penalty_pct == IF priority_num = 1 THEN 4 ELSE 3
    IN  IF rca_compliance.n * 100 > 95 * rca_compliance.d
        THEN 0 ELSE (at_risk * penalty_pct) \div 100

\* 0 when the compliance reaches 0.95, else at_risk * 0.04 (P1) or 0.03
rca_penalty(rca_compliance, at_risk, priority_num) ==
    LET penalty_pct == IF priority_num = 1 THEN 4 ELSE 3
    IN  IF RateAtLeast(rca_compliance, 95) THEN 0 ELSE (at_risk * penalty_pct) \div 100

\* body of the loop over the observed ranks
sla_performance_row(filtered, at_risk, priority) ==
    LET priority_df == SelectSeq(filtered, LAMBDA r : r.Priority_Numeric = priority)
        resolution_compliance == MeanSlaMet(priority_df)
        resolution_credit_pct == priority_df[1].Resolution_Credit_Pct
        response_credit_pct == priority_df[1].Response_Credit_Pct
        penalty == resolution_penalty(resolution_compliance, at_risk,
                                      resolution_credit_pct)
        response_compliance == [n |-> 95, d |-> 100]
        response_penalty == IF RateBelow(response_compliance, 90)
                            THEN MulPct(at_risk, response_credit_pct)
                            ELSE Num(0)
    IN  [Priority |-> priority,
         Total_Tickets |-> Len(priority_df),
         Resolution_Compliance |-> resolution_compliance,
         Response_Compliance |-> response_compliance,
         Resolution_Credit_Pct |-> resolution_credit_pct,
         Response_Credit_Pct |-> response_credit_pct,
         Resolution_Penalty |-> penalty,
         Response_Penalty |-> response_penalty,
         Total_Penalty |-> FAdd(penalty, response_penalty),
         Status |-> IF RateAtLeast(resolution_compliance, 90) THEN "Pass" ELSE "Fail"]

\* the rows of rca_metrics: None (no row) when the rank has no ticket
calculate_rca_metrics(filtered, at_risk, priority_num) ==
    LET priority_tickets == SelectSeq(filtered, LAMBDA r : r.Priority_Numeric = priority_num)
        rca_completed_ontime == Count(priority_tickets, LAMBDA r : r.SLA_Met = TRUE)
        total_incidents == Len(priority_tickets)
        rca_compliance == [n |-> rca_completed_ontime, d |-> total_incidents]
        penalty == rca_penalty(rca_compliance, at_risk, priority_num)
    IN  IF total_incidents = 0 THEN << >>
        ELSE << [Priority |-> priority_num,
                 Total_Incidents |-> total_incidents,
                 RCA_Required |-> total_incidents,
                 RCA_Completed_OnTime |-> rca_completed_ontime,
                 Compliance |-> rca_compliance,
                 Status |-> IF RateAtLeast(rca_compliance, 95) THEN "Pass" ELSE "Fail",
                 Penalty_Risk |-> FormatMoney(penalty)] >>

\* service request penalty: SLA_Met mean of the rows whose SR Result is
\* "TRUE" when the column exists, else the fixed estimate 0.92
service_request_penalty(filtered, columns, at_risk) ==
    LET actual_service_requests == SelectSeq(filtered, LAMBDA r : r.SR = "TRUE")
        sr_compliance ==
            IF COL_SR_RESULT \in columns
            THEN IF Len(actual_service_requests) > 0
                 THEN MeanSlaMet(actual_service_requests)
                 ELSE [n |-> 1, d |-> 1]
            ELSE [n |-> 92, d |-> 100]
    IN  IF RateBelow(sr_compliance, 90) THEN (at_risk * 5) \div 100 ELSE 0

\* app_availability 99.15 against the minimum 99.00, in hundredths of a percent
availability_penalty(at_risk) ==
    IF 9915 < 9900 THEN (at_risk * 10) \div 100 ELSE 0

NoBumaTab ==
    [shown |-> FALSE, at_risk_amount |-> 0, sla_performance |-> << >>,
     total_financial_exposure |-> Num(0), overall_compliance |-> [n |-> 0, d |-> 1],
     pass_count |-> 0, rca_metrics |-> << >>, updated_total |-> Num(0),
     availability_penalty |-> 0, service_request_penalty |-> 0,
     total_resolution_penalty |-> Num(0), rca_penalty |-> 0,
     total_exposure |-> Num(0),
     exposure_percentage |-> [nan |-> FALSE, n |-> 0, d |-> 1]]

\* (total_exposure / at_risk_amount) * 100 when the amount is positive, else
\* 0: the float n / d, NaN when the total is NaN
exposure_percentage(total_exposure, at_risk) ==
    IF at_risk > 0
    THEN [nan |-> total_exposure.nan, n |-> total_exposure.v * 100, d |-> at_risk]
    ELSE [nan |-> FALSE, n |-> 0, d |-> 1]

render_buma_sla_tab(filtered, columns, charge) ==
    LET at_risk == at_risk_amount(charge)
        ranks == observed_ranks(filtered)
        sla_performance ==
            [i \in 1..Len(ranks) |-> sla_performance_row(filtered, at_risk, ranks[i])]
        total_financial_exposure ==
            FSum([i \in 1..Len(ranks) |-> sla_performance[i].Total_Penalty])
        rca_metrics == calculate_rca_metrics(filtered, at_risk, 1)
                       \o calculate_rca_metrics(filtered, at_risk, 2)
        rca_total_penalty == ISum([i \in 1..Len(rca_metrics) |-> rca_metrics[i].Penalty_Risk])
        sr_penalty == service_request_penalty(filtered, columns, at_risk)
        total_resolution_penalty ==
            FSum([i \in 1..Len(ranks) |-> sla_performance[i].Total_Penalty])
        rca_sum == IF rca_metrics # << >> THEN rca_total_penalty ELSE 0
        total_exposure ==
            FAdd(FAdd(FAdd(FAdd(total_resolution_penalty, Num(rca_sum)),
                           Num(0)), Num(sr_penalty)),
                 Num(availability_penalty(at_risk)))
    IN  IF Len(filtered) = 0 THEN [NoBumaTab EXCEPT !.at_risk_amount = at_risk]
        ELSE [shown |-> TRUE,
              at_risk_amount |-> at_risk,
              sla_performance |-> sla_performance,
              total_financial_exposure |-> total_financial_exposure,
              overall_compliance |-> MeanSlaMet(filtered),
              pass_count |-> Count(sla_performance,
                                   LAMBDA p : RateAtLeast(p.Resolution_Compliance, 90)),
              rca_metrics |-> rca_metrics,
              updated_total |-> IF rca_metrics # << >>
                                THEN FAdd(total_financial_exposure, Num(rca_total_penalty))
                                ELSE Num(0),
              availability_penalty |-> availability_penalty(at_risk),
              service_request_penalty |-> sr_penalty,
              total_resolution_penalty |-> total_resolution_penalty,
              rca_penalty |-> rca_sum,
              total_exposure |-> total_exposure,
              exposure_percentage |-> exposure_percentage(total_exposure, at_risk)]

\* ------------------------------------------------------------ one script run
\* the data quality section divides by the number of filtered tickets: app
\* and app2 return before it when there is none, backup does not
quality_checks_error(variant, filtered) ==
    IF variant = "backup" /\ Len(filtered) = 0 THEN "ZeroDivisionError" ELSE "none"

NoPass ==
    [ran |-> FALSE, error |-> "none", filtered |-> << >>, total_tickets |-> 0,
     open_tickets |-> 0,
     sla_compliance |-> << >>, overall_sla |-> [n |-> 0, d |-> 1],
     group_perf |-> << >>, buma |-> NoBumaTab,
     avg_resolution_days |-> [n |-> 0, d |-> 1], monthly_tickets |-> << >>,
     channel_pivot |-> NoPivot, group_ranking |-> << >>, top_groups |-> << >>,
     assignee_perf |-> << >>, channel_dist |-> << >>,
     location_dist |-> << >>, cat_summary |-> << >>,
     top_categories |-> << >>, quality |-> NoQualityTab]

\* the script from load_data to the last tab
Pass(v, cols, loaded, sel, chg, tie) ==
    IF ~loaded.ok THEN [NoPass EXCEPT !.ran = TRUE, !.error = loaded.error]
    ELSE LET filtered == ApplyFilters(loaded.df, sel)
             group_ranking == group_perf(filtered, tie)
             categories == cat_summary(filtered, tie)
         IN  [ran |-> TRUE,
              error |-> quality_checks_error(v, filtered),
              filtered |-> filtered,
              total_tickets |-> Len(filtered),
              open_tickets |-> open_tickets(v, filtered),
              sla_compliance |-> sla_compliance_table(v, filtered),
              overall_sla |-> overall_sla_metric(filtered),
              group_perf |-> group_perf_table(filtered),
              buma |-> IF v = "app2"
                       THEN render_buma_sla_tab(filtered, cols, chg)
                       ELSE NoBumaTab,
              avg_resolution_days |-> avg_resolution_days(filtered),
              monthly_tickets |-> monthly_tickets(filtered),
              channel_pivot |-> channel_pivot_with_total(v, filtered, tie),
              group_ranking |-> group_ranking,
              top_groups |-> head(group_ranking, 15),
              assignee_perf |-> assignee_perf(filtered, tie),
              channel_dist |-> channel_dist(filtered),
              location_dist |-> location_dist(v, filtered),
              cat_summary |-> categories,
              top_categories |-> head(categories, 15),
              quality |-> IF v = "backup" THEN NoQualityTab
                          ELSE render_quality_tab(filtered)]

\* ------------------------------------------------------------- input rows
Row(number, opened, resolved, label, state, group, sr) ==
    [Number |-> number, Opened |-> opened, Resolved |-> resolved,
     Priority |-> label, State |-> state, Group |-> group, SR |-> sr,
     AssignedTo |-> "Agent A", ShortDesc |-> "Printer issue",
     Channel |-> "Email", Location |-> "L01", Categorization |-> "Hardware",
     ConfigItem |-> "CI1"]

Hours(h) == h * 3600

P1 == <<"P", "1">>
P2 == <<"P", "2">>
P3 == <<"P", "3">>
P4 == <<"P", "4">>
P5 == <<"P", "5">>
High == <<"H", "i", "g", "h">>

\* rows that differ in state, priority and group, for the global filters
FilterRows ==
    { Row(1, 0, Hours(3), P1, STATE_CLOSED, "Service Desk", "FALSE"),
      Row(2, 0, NaT, P2, STATE_ACTIVE, "Network", "FALSE"),
      Row(NoNumber, 0, Hours(5), P2, STATE_RESOLVED, "Network", "TRUE") }

\* rows for the derived fields and the contract tables: met and missed
\* targets, a missing timestamp, a missing number, an unmapped rank and a
\* label without a digit
DataRows ==
    { Row(1, 0, Hours(3), P1, STATE_CLOSED, "Service Desk", "FALSE"),
      Row(NoNumber, 0, Hours(4), P1, STATE_CLOSED, "Service Desk", "FALSE"),
      Row(2, 0, Hours(9), P2, STATE_CLOSED, "Network", "TRUE"),
      Row(3, 0, NaT, P2, STATE_ACTIVE, "Network", "FALSE"),
      Row(4, NaT, Hours(1), P3, STATE_RESOLVED, "Network", "TRUE"),
      Row(5, 0, Hours(1), P5, STATE_CLOSED, "Service Desk", "FALSE"),
      Row(6, 0, Hours(1), High, STATE_CLOSED, "Service Desk", "FALSE") }

\* many P1 tickets that met or missed the target, for the 90% and 95%
\* thresholds, and at most one P2 and one P3 ticket
ThresholdRows ==
    << Row(1, 0, Hours(3), P1, STATE_CLOSED, "Service Desk", "TRUE"),
       Row(2, 0, Hours(5), P1, STATE_CLOSED, "Service Desk", "TRUE"),
       Row(3, 0, Hours(9), P2, STATE_CLOSED, "Network", "FALSE"),
       Row(4, 0, Hours(41), P3, STATE_CLOSED, "Network", "FALSE") >>

ThresholdRepeated == {1, 2}

\* the end-to-end scenario (3h, 9h, 30h, 50h for P1..P4) and the boundaries
ScenarioRows ==
    << Row(1, 0, Hours(3), P1, STATE_CLOSED, "Service Desk", "FALSE"),
       Row(2, 0, Hours(9), P2, STATE_CLOSED, "Service Desk", "FALSE"),
       Row(3, 0, Hours(30), P3, STATE_CLOSED, "Service Desk", "FALSE"),
       Row(4, 0, Hours(50), P4, STATE_CLOSED, "Service Desk", "FALSE"),
       Row(5, 0, Hours(8), P2, STATE_CLOSED, "Service Desk", "FALSE"),
       Row(6, 0, Hours(40) + 1, P3, STATE_CLOSED, "Service Desk", "FALSE"),
       Row(7, Hours(2), Hours(1), P4, STATE_CLOSED, "Service Desk", "FALSE") >>

Days(d) == d * SecondsPerDay

\* rows for the data quality checks: a clean ticket, both dates after the
\* evaluation time, no opening date, an unassigned active ticket without a
\* number, a negative duration in an open state, a closed ticket without a
\* resolution date and description, and a duration over 365 days
QualityRows ==
    { Row(1, 0, Hours(3), P1, STATE_CLOSED, "Service Desk", "FALSE"),
      Row(2, Now + Hours(1), Now + Hours(2), P1, STATE_CLOSED, "Service Desk", "FALSE"),
      Row(3, NaT, Hours(1), P2, STATE_RESOLVED, "Service Desk", "FALSE"),
      [Row(NoNumber, 0, NaT, P3, STATE_ACTIVE, NoValue, "FALSE")
           EXCEPT !.AssignedTo = NoValue],
      Row(5, Hours(2), Hours(1), P2, STATE_WIP, "Network", "FALSE"),
      [Row(6, 0, NaT, P4, STATE_CLOSED, "Network", "FALSE")
           EXCEPT !.ShortDesc = NoValue, !.ConfigItem = CI_NOTFOUND],
      Row(7, 0, Days(365) + 1, P4, STATE_CLOSED, "Network", "FALSE") }

\* rows for the monthly tables: two channels and a ticket without channel,
\* opened on the last second of January 2024, in February and March 2024, in
\* January 2025 or without an opening date
ChannelRows ==
    { Row(1, Days(31) - 1, Days(31) + Hours(2), P1, STATE_CLOSED, "Service Desk", "FALSE"),
      Row(2, Days(31), Days(31) + Hours(3), P1, STATE_CLOSED, "Service Desk", "FALSE"),
      [Row(3, Days(31) + Hours(5), NaT, P2, STATE_ACTIVE, "Network", "FALSE")
           EXCEPT !.Channel = "Phone"],
      [Row(4, Days(60), Days(60) + Hours(1), P2, STATE_CLOSED, "Network", "FALSE")
           EXCEPT !.Channel = NoValue],
      [Row(5, NaT, Hours(1), P3, STATE_RESOLVED, "Network", "FALSE")
           EXCEPT !.Channel = "Phone"],
      [Row(6, Days(366), Days(366) + Hours(1), P3, STATE_CLOSED, "Service Desk", "FALSE")
           EXCEPT !.Channel = "Phone"] }

\* rows for the open states: a new ticket that has a resolution date, a new
\* ticket without group and assignee, a ticket awaiting the user, an active
\* ticket and a closed one
StateRows ==
    { Row(1, 0, Hours(3), P1, STATE_NEW, "Service Desk", "FALSE"),
      [Row(2, 0, NaT, P2, STATE_NEW, NoValue, "FALSE") EXCEPT !.AssignedTo = NoValue],
      Row(3, 0, NaT, P2, STATE_AWAITING_USER, "Network", "FALSE"),
      Row(4, 0, NaT, P3, STATE_ACTIVE, "Network", "FALSE"),
      Row(5, 0, Hours(3), P1, STATE_CLOSED, "Service Desk", "FALSE") }

LocationName(i) == "L" \o DigitChar(i \div 10) \o DigitChar(i % 10)

\* rows for the ranking tables: eleven locations, L02 and L11 with two
\* tickets and the others with one, over two groups, assignees and categories
RankingRows ==
    [k \in 1..13 |->
        [Row(k, 0, Hours(3), P1, STATE_CLOSED,
             IF k % 2 = 1 THEN "Service Desk" ELSE "Network", "FALSE")
            EXCEPT !.Location = LocationName(IF k = 1 THEN 1
                                             ELSE IF k <= 3 THEN 2
                                             ELSE IF k <= 11 THEN k - 1 ELSE 11),
                   !.AssignedTo = IF k % 3 = 0 THEN "Agent A" ELSE "Agent B",
                   !.Categorization = IF k % 2 = 1 THEN "Software" ELSE "Hardware"]]

ServiceCharges == {0, 1001, DefaultServiceCharge}

\* -------------------------------------------------------------- the machine
VARIABLES variant, columns, file, cache, charge, selected, out, sort_ties,
          source, memo_key

vars == <<variant, columns, file, cache, charge, selected, out, sort_ties,
          source, memo_key>>

\* where the script takes the export from: the default file of the working
\* directory, or the file uploader when that file does not exist
Sources == {"default file", "uploaded file"}

DEFAULT_CSV_FILE(v) == IF v = "app2" THEN "tcd.csv" ELSE "Test.csv"

NoKey == [path |-> "", content |-> << >>]

\* what st.cache_data hashes to memoize load_data: its argument, which is the
\* file name for the default file and the uploaded bytes for an upload;
\* load_data of backup has no argument
cache_key(v, src, rows) ==
    IF v = "backup" THEN NoKey
    ELSE IF src = "default file"
         THEN [path |-> DEFAULT_CSV_FILE(v), content |-> << >>]
         ELSE [path |-> "", content |-> rows]

\* the dashboard before its first run
Start ==
    /\ variant \in Variants
    /\ columns \in (IF variant = "app2"
                    THEN {BaseColumns, BaseColumns \cup {COL_SR_RESULT}}
                    ELSE {BaseColumns})
    /\ file = << >>
    /\ cache = NotLoaded
    /\ charge = DefaultServiceCharge
    /\ selected = NoSelection
    /\ out = NoPass
    /\ memo_key = NoKey

\* a build whose sort keeps the rows with equal counts in their order, run
\* next to its default file
Init == Start /\ sort_ties = "kept" /\ source = "default file"

\* either behaviour of the sort on equal counts, for the ranking tables
InitRanking == Start /\ sort_ties \in SortOutcomes /\ source = "default file"

\* either source of the export; backup reads its default file only
InitCache ==
    /\ Start
    /\ sort_ties = "kept"
    /\ source \in (IF variant = "backup" THEN {"default file"} ELSE Sources)

\* the export is written before the dashboard first loads it
WriteRow(r) ==
    /\ ~cache.ok
    /\ file' = Append(file, r)
    /\ UNCHANGED <<variant, columns, cache, charge, selected, out, sort_ties,
                   source, memo_key>>

AppendRow(rows) ==
    /\ Len(file) < MaxRows
    /\ \E r \in rows : WriteRow(r)

\* rows appended in the order of a list, the listed positions repeatedly
AppendListed(list, repeated, max) ==
    /\ Len(file) < max
    /\ \E k \in 1..Len(list) :
          /\ \/ file = << >>
             \/ \E j \in 1..Len(list) :
                   /\ file # << >>
                   /\ list[j] = file[Len(file)]
                   /\ (j < k \/ (j = k /\ k \in repeated))
          /\ WriteRow(list[k])

\* the rows of a list appended one after the other
AppendInOrder(list) ==
    /\ Len(file) < Len(list)
    /\ WriteRow(list[Len(file) + 1])

\* a script run on the given export with the given widget values; load_data
\* is memoized by st.cache_data under the key of its argument once it has
\* returned
RunOn(rows, sel, chg) ==
    LET key == cache_key(variant, source, rows)
        hit == cache.ok /\ memo_key = key
        loaded == IF hit THEN cache ELSE load_data(variant, rows)
    IN  /\ Len(rows) >= 1
        /\ file' = rows
        /\ cache' = IF loaded.ok THEN loaded ELSE cache
        /\ memo_key' = IF loaded.ok THEN key ELSE memo_key
        /\ selected' = sel
        /\ charge' = chg
        /\ out' = Pass(variant, columns, loaded, sel, chg, sort_ties)
        /\ UNCHANGED <<variant, columns, sort_ties, source>>

\* a script run with the given widget values
Rerun(sel, chg) == RunOn(file, sel, chg)

\* the default file is written again with one more row while the dashboard
\* is up
RewriteExport ==
    /\ source = "default file"
    /\ cache.ok
    /\ Len(file) < MaxRows
    /\ \E r \in FilterRows : file' = Append(file, r)
    /\ UNCHANGED <<variant, columns, cache, charge, selected, out, sort_ties,
                   source, memo_key>>

\* the user replaces the upload by an export with one more row, which runs
\* the script
UploadExport ==
    /\ source = "uploaded file"
    /\ cache.ok
    /\ Len(file) < MaxRows
    /\ \E r \in FilterRows : RunOn(Append(file, r), selected, charge)

\* opening or refreshing the page
OpenPage == Rerun(selected, charge)

SetStates ==
    /\ cache.ok
    /\ \E S \in SUBSET StateOptions(variant, cache.df) :
          /\ S # selected.states
          /\ Rerun([selected EXCEPT !.states = S], charge)

SetPriorities ==
    /\ cache.ok
    /\ \E S \in SUBSET PriorityOptions(cache.df) :
          /\ S # selected.priorities
          /\ Rerun([selected EXCEPT !.priorities = S], charge)

SetGroups ==
    /\ cache.ok
    /\ \E S \in SUBSET GroupOptions(variant, cache.df) :
          /\ S # selected.groups
          /\ Rerun([selected EXCEPT !.groups = S], charge)

SetCharge ==
    /\ variant = "app2"
    /\ cache.ok
    /\ \E c \in ServiceCharges :
          /\ c # charge
          /\ Rerun(selected, c)

AppendFilterRow == AppendRow(FilterRows)
AppendDataRow == AppendRow(DataRows)
AppendThresholdRow == AppendListed(ThresholdRows, ThresholdRepeated, MaxBulk)
AppendScenarioRow == AppendListed(ScenarioRows, {}, Len(ScenarioRows))

AppendQualityRow == AppendRow(QualityRows)
AppendChannelRow == AppendRow(ChannelRows)
AppendRankingRow == AppendInOrder(RankingRows)
AppendStateRow == AppendRow(StateRows)

Next ==
    \/ AppendFilterRow
    \/ OpenPage
    \/ SetStates
    \/ SetPriorities
    \/ SetGroups
    \/ SetCharge

Spec == Init /\ [][Next]_vars

NextData == AppendDataRow \/ OpenPage \/ SetCharge

SpecData == Init /\ [][NextData]_vars

NextThreshold == AppendThresholdRow \/ OpenPage \/ SetCharge

\* the thresholds belong to the contract dashboard
InitThreshold == Init /\ variant = "app2"

SpecThreshold == InitThreshold /\ [][NextThreshold]_vars

NextScenario == AppendScenarioRow \/ OpenPage

SpecScenario == Init /\ [][NextScenario]_vars

NextQuality == AppendQualityRow \/ OpenPage \/ SetStates

SpecQuality == Init /\ [][NextQuality]_vars

NextPivot == AppendChannelRow \/ OpenPage \/ SetStates

SpecPivot == Init /\ [][NextPivot]_vars

NextRanking == AppendRankingRow \/ OpenPage \/ SetGroups

SpecRanking == InitRanking /\ [][NextRanking]_vars

NextStates == AppendStateRow \/ OpenPage \/ SetStates

SpecStates == Init /\ [][NextStates]_vars

NextCache ==
    AppendFilterRow \/ OpenPage \/ SetStates \/ RewriteExport \/ UploadExport

SpecCache == InitCache /\ [][NextCache]_vars

\* ================================================================ properties
RanksIn(df) == {df[i].Priority_Numeric : i \in 1..Len(df)}

TicketsOfRank(df, rank) == SelectSeq(df, LAMBDA r : r.Priority_Numeric = rank)

MetCount(df) == Count(df, LAMBDA r : r.SLA_Met)

ContractPassDone == variant = "app2" /\ out.ran /\ out.error = "none"

\* C1: in every row of the SLA performance table the resolution penalty is
\* the whole at_risk_amount * credit_pct / 100 of the rank when fewer than
\* 90% of the rank's tickets met the SLA, and 0 otherwise; it never depends
\* on how far below 90% the compliance is.
C1_StepPenalty ==
    \A i \in 1..Len(out.buma.sla_performance) :
        LET p == out.buma.sla_performance[i]
            tickets == TicketsOfRank(out.filtered, p.Priority)
            credit == MapRank(ResolutionCredit, p.Priority)
            whole == IF credit.nan THEN NaN
                     ELSE Num((charge * 100 * credit.v) \div 100)
        IN  p.Resolution_Penalty =
                IF 10 * MetCount(tickets) < 9 * Len(tickets) THEN whole ELSE Num(0)

\* a rank at exactly 90% with no penalty next to a rank below 90% with one
C1_Witness ==
    /\ ContractPassDone
    /\ \E i \in 1..Len(out.buma.sla_performance) :
          LET p == out.buma.sla_performance[i]
          IN  /\ 10 * p.Resolution_Compliance.n = 9 * p.Resolution_Compliance.d
              /\ p.Resolution_Penalty = Num(0)
    /\ \E i \in 1..Len(out.buma.sla_performance) :
          LET p == out.buma.sla_performance[i]
          IN  /\ 10 * p.Resolution_Compliance.n < 9 * p.Resolution_Compliance.d
              /\ ~p.Resolution_Penalty.nan
              /\ p.Resolution_Penalty.v > 0

\* C3: a ticket with both timestamps and a rank in 1..4 met its SLA exactly
\* when resolved - opened is at most the target hours of its rank, the
\* boundary included; under the contract targets the four tickets of 3h, 9h,
\* 30h and 50h for P1..P4 give True, False, True, True.
C3_SlaMetInclusive ==
    cache.ok =>
        /\ \A i \in 1..Len(cache.df) :
              LET r == cache.df[i]
              IN  (r.Opened # NaT /\ r.Resolved # NaT /\ r.Priority_Numeric \in 1..4) =>
                      (r.SLA_Met <=>
                          r.Resolved - r.Opened
                              <= SlaTargets(variant)[r.Priority_Numeric] * 3600)
        /\ (variant = "app2" /\ file = SubSeq(ScenarioRows, 1, 4)) =>
              [i \in 1..4 |-> cache.df[i].SLA_Met] = <<TRUE, FALSE, TRUE, TRUE>>

\* the scenario tickets followed by a P2 ticket resolved after exactly 8h
C3_Witness ==
    /\ variant = "app2"
    /\ cache.ok
    /\ file = SubSeq(ScenarioRows, 1, 5)
    /\ cache.df[5].Resolved - cache.df[5].Opened = 8 * 3600
    /\ cache.df[5].SLA_Met

\* C9: the RCA table has a row for rank 1 and for rank 2 exactly when the
\* filtered records have a ticket of that rank; the compliance of the row is
\* the resolution compliance of the rank, the row passes from 0.95 on, and
\* the penalty shown is at_risk_amount * 4% (rank 1) or 3% (rank 2) below
\* 0.95 and 0 otherwise.
C9_RcaProxy ==
    ContractPassDone =>
        LET rca == out.buma.rca_metrics
            perf == out.buma.sla_performance
            present == RanksIn(out.filtered) \cap {1, 2}
            at_risk == charge * 100
        IN  /\ {rca[i].Priority : i \in 1..Len(rca)} = present
            /\ Len(rca) = Cardinality(present)
            /\ \A i \in 1..Len(rca) :
                  LET m == rca[i]
                      tickets == TicketsOfRank(out.filtered, m.Priority)
                      pct == IF m.Priority = 1 THEN 4 ELSE 3
                  IN  /\ \E j \in 1..Len(perf) :
                            /\ perf[j].Priority = m.Priority
                            /\ m.Compliance.n * perf[j].Resolution_Compliance.d
                                   = perf[j].Resolution_Compliance.n * m.Compliance.d
                      /\ m.Compliance.n * Len(tickets) = MetCount(tickets) * m.Compliance.d
                      /\ m.Status = "Pass" <=> 100 * MetCount(tickets) >= 95 * Len(tickets)
                      /\ m.Penalty_Risk =
                            FormatMoney(IF 100 * MetCount(tickets) < 95 * Len(tickets)
                                        THEN (at_risk * pct) \div 100 ELSE 0)

\* rank 1 at exactly 95% without a penalty, rank 2 penalised, rank 3 without
\* an RCA row
C9_Witness ==
    /\ ContractPassDone
    /\ 3 \in RanksIn(out.filtered)
    /\ Len(out.buma.rca_metrics) = 2
    /\ 100 * out.buma.rca_metrics[1].Compliance.n = 95 * out.buma.rca_metrics[1].Compliance.d
    /\ out.buma.rca_metrics[1].Penalty_Risk = 0
    /\ out.buma.rca_metrics[2].Penalty_Risk > 0

\* C10: the SLA performance table has one row for each priority rank of the
\* filtered records and no other row, in ascending rank order, and its
\* Total_Tickets add up to the number of filtered records.
C10_RowPerRank ==
    ContractPassDone =>
        LET perf == out.buma.sla_performance
        IN  /\ {perf[i].Priority : i \in 1..Len(perf)} = RanksIn(out.filtered)
            /\ Len(perf) = Cardinality(RanksIn(out.filtered))
            /\ \A i \in 1..(Len(perf) - 1) : perf[i].Priority < perf[i + 1].Priority
            /\ ISum([i \in 1..Len(perf) |-> perf[i].Total_Tickets]) = Len(out.filtered)

\* a filter that keeps some records of two ranks and drops another record
C10_Witness ==
    /\ ContractPassDone
    /\ selected # NoSelection
    /\ 0 < Len(out.filtered)
    /\ Len(out.filtered) < Len(cache.df)
    /\ Len(out.buma.sla_performance) = 2

PassDone == out.ran /\ out.error = "none"

WithDuration(df) == SelectSeq(df, LAMBDA r : ~r.Resolution_Hours.nan)

\* the ratio r equals the share of SLA-met tickets among those of df that
\* have a resolution duration
IsRateOverDefined(r, df) ==
    Len(WithDuration(df)) > 0 =>
        r.n * Len(WithDuration(df)) = MetCount(WithDuration(df)) * r.d

\* C2: a ticket without a resolution duration is not an SLA failure: the
\* overall compliance and the compliance of every rank are the share of
\* SLA-met tickets among the tickets that have a duration.
C2_UndefinedExcluded ==
    PassDone =>
        /\ Len(out.filtered) > 0 => IsRateOverDefined(out.overall_sla, out.filtered)
        /\ \A i \in 1..Len(out.buma.sla_performance) :
              LET p == out.buma.sla_performance[i]
              IN  IsRateOverDefined(p.Resolution_Compliance,
                                    TicketsOfRank(out.filtered, p.Priority))

InUnitInterval(r) == r.d > 0 /\ 0 <= r.n /\ r.n <= r.d

\* C4: every compliance rate of an output table (by priority label, by
\* assignment group, overall) is a number in [0, 1], and the overall rate of
\* an empty selection is 0.
C4_RatesInUnitInterval ==
    out.ran =>
        /\ \A l \in DOMAIN out.sla_compliance :
              InUnitInterval(out.sla_compliance[l].SLA_Compliance)
        /\ \A g \in DOMAIN out.group_perf :
              InUnitInterval(out.group_perf[g].SLA_Compliance)
        /\ InUnitInterval(out.overall_sla)
        /\ (Len(out.filtered) = 0 => out.overall_sla.n = 0)

\* C5: a row whose priority label has no digit does not abort the load: the
\* pass runs on all rows of the file.
C5_NoDigitRowKept ==
    out.ran =>
        /\ out.error # "ValueError"
        /\ (cache.ok /\ selected = NoSelection) => Len(out.filtered) = Len(file)

\* C6: a pass over records with a rank that the target or the credit mapping
\* does not cover ends with an error, and no NaN reaches the penalty totals.
C6_UnmappedRankFails ==
    PassDone =>
        /\ \A i \in 1..Len(out.filtered) :
              out.filtered[i].Priority_Numeric
                  \in (DOMAIN SlaTargets(variant)) \cap (DOMAIN ResolutionCredit)
        /\ ~out.buma.total_financial_exposure.nan
        /\ ~out.buma.total_exposure.nan

\* C7: every pass completes without raising, whatever the filters select;
\* with no ticket left, the counts and the overall compliance are 0 and the
\* tables are empty.
C7_EmptySelectionCompletes ==
    out.ran =>
        /\ out.error = "none"
        /\ Len(out.filtered) = 0 =>
              /\ out.total_tickets = 0
              /\ out.overall_sla.n = 0
              /\ DOMAIN out.sla_compliance = {}
              /\ DOMAIN out.group_perf = {}
              /\ out.buma.sla_performance = << >>

\* C8: the total exposure is the sum of the resolution penalties of the
\* ranks, the RCA penalties, the service request penalty and the availability
\* penalty, and each figure labelled total financial exposure shows that sum.
C8_OneTotalExposure ==
    (ContractPassDone /\ out.buma.shown) =>
        LET b == out.buma
            resolution == FSum([i \in 1..Len(b.sla_performance) |->
                                   b.sla_performance[i].Resolution_Penalty])
            rca == ISum([i \in 1..Len(b.rca_metrics) |-> b.rca_metrics[i].Penalty_Risk])
            sum == FAdd(FAdd(FAdd(resolution, Num(rca)),
                             Num(b.service_request_penalty)),
                        Num(b.availability_penalty))
        IN  /\ b.total_exposure = sum
            /\ b.total_financial_exposure = sum
            /\ (b.rca_metrics # << >> => b.updated_total = sum)

QualityShown == out.ran /\ out.error = "none" /\ out.quality.shown

Occurrences(df, number) == Count(df, LAMBDA r : r.Number = number)

IsFuture(r) == (r.Opened # NaT /\ r.Opened > Now) \/ (r.Resolved # NaT /\ r.Resolved > Now)

Bit(b) == IF b THEN 1 ELSE 0

\* the number of counting rules the ticket r of df violates, the missing
\* critical fields counted one by one
RuleHits(df, r) ==
    Bit(r.Opened # NaT /\ r.Resolved # NaT
            /\ (r.Resolved < r.Opened \/ r.Resolved - r.Opened > 365 * SecondsPerDay))
    + Bit(r.Resolved # NaT /\ r.Opened = NaT)
    + Bit(r.State \in CLOSED_STATES /\ r.Resolved = NaT)
    + Bit(r.State \in OPEN_STATES /\ r.Resolved # NaT)
    + Bit(r.Priority = << >>) + Bit(r.Group = NoValue) + Bit(r.AssignedTo = NoValue)
    + Bit(r.ShortDesc = NoValue) + Bit(r.State = NoValue)
    + Bit(Occurrences(df, r.Number) >= 2)
    + Bit(IsFuture(r))
    + Bit(r.State \in OPEN_STATES /\ r.Group = NoValue /\ r.AssignedTo = NoValue)

\* C11: the quality issue count of a pass is the sum, over the filtered
\* tickets, of the number of counting rules each ticket violates (a missing
\* critical field counts once per field); the informational checks add 0.
C11_IssueCountIsRuleSum ==
    QualityShown =>
        out.quality.quality_issues_count =
            ISum([i \in 1..Len(out.filtered) |->
                     RuleHits(out.filtered, out.filtered[i])])

\* C12: with at least one ticket the quality score is
\* max(0, 100 - issues / total * 100): it lies in [0, 100], it is 100 exactly
\* when there is no issue, and it is 0 when the issues reach the ticket total.
C12_QualityScore ==
    QualityShown =>
        LET issues == out.quality.quality_issues_count
            total == Len(out.filtered)
            score == out.quality.quality_score
            expected == IF issues >= total THEN 0 ELSE 100 * (total - issues)
        IN  /\ total >= 1 /\ issues >= 0 /\ score.d > 0
            /\ score.n * total = expected * score.d
            /\ 0 <= score.n /\ score.n <= 100 * score.d
            /\ (score.n = 100 * score.d <=> issues = 0)
            /\ (issues >= total => score.n = 0)

\* more issues than tickets, by double counting, and a score of 0
C12_Witness ==
    /\ QualityShown
    /\ out.quality.quality_issues_count > Len(out.filtered)
    /\ out.quality.quality_score.n = 0

\* C13: the duplicate rule flags exactly the filtered records whose ticket
\* number occurs at least twice among the filtered records, every occurrence
\* included: numbers [A, A, B] give a violating subset of size 2.
C13_DuplicatesAllOccurrences ==
    QualityShown =>
        LET dup == out.quality.duplicate_tickets
            df == out.filtered
        IN  /\ Len(dup) = Count(df, LAMBDA r : Occurrences(df, r.Number) >= 2)
            /\ \A k \in 1..Len(dup) :
                  /\ Occurrences(df, dup[k].Number) >= 2
                  /\ \E i \in 1..Len(df) : df[i] = dup[k]
            /\ (/\ Len(df) = 3
                /\ df[1].Number = df[2].Number
                /\ df[3].Number # df[1].Number) => Len(dup) = 2

\* three records with the numbers A, A, B and both records A flagged
C13_Witness ==
    /\ QualityShown
    /\ Len(out.filtered) = 3
    /\ out.filtered[1].Number = out.filtered[2].Number
    /\ out.filtered[3].Number # out.filtered[1].Number
    /\ out.filtered[1].Number # NoNumber
    /\ Len(out.quality.duplicate_tickets) = 2

\* C14: the count of the future-dates rule is the number of filtered tickets
\* with an opening or a resolution date after the evaluation time, a ticket
\* with both dates in the future counted once.
C14_FutureCountIsSubsetSize ==
    QualityShown =>
        out.quality.future_dates = Count(out.filtered, IsFuture)

\* C15: a filtered ticket with a resolution date and no opening date is
\* counted once by the resolved-without-opened rule, has no resolution
\* duration and no SLA_Met value, is not an unusual resolution, and does not
\* enter the mean of the resolution durations.
C15_ResolvedWithoutOpened ==
    (out.ran /\ out.error = "none") =>
        LET df == out.filtered
            lone == SelectSeq(df, LAMBDA r : r.Resolved # NaT /\ r.Opened = NaT)
            timed == SelectSeq(df, LAMBDA r : r.Resolved # NaT /\ r.Opened # NaT)
        IN  /\ \A i \in 1..Len(lone) :
                  /\ lone[i].Resolution_Days.nan
                  /\ lone[i].Resolution_Hours.nan
                  /\ lone[i].SLA_Met \notin BOOLEAN
            /\ out.quality.shown =>
                  /\ out.quality.resolved_without_opened = Len(lone)
                  /\ out.quality.unusual_resolution
                         = Count(timed, LAMBDA r :
                                    \/ r.Resolved < r.Opened
                                    \/ r.Resolved - r.Opened > 365 * SecondsPerDay)
            /\ Len(df) > 0 => out.avg_resolution_days.d = Len(timed)

WithChannel(df) == SelectSeq(df, LAMBDA r : r.Channel # NoValue)

\* a pass of a dashboard that has the monthly channel table
PivotPassDone == out.ran /\ out.error = "none" /\ variant # "backup"

\* C16: the monthly channel pivot has a cell for every channel and every
\* month that occur among the filtered tickets with a channel; the cell holds
\* the number of filtered tickets of that channel opened in that month, an
\* explicit 0 when there is none.
C16_PivotZeroFill ==
    PivotPassDone =>
        LET kept == WithChannel(out.filtered)
            pivot == out.channel_pivot
        IN  /\ pivot.shown <=> Len(kept) > 0
            /\ \A i, j \in 1..Len(kept) :
                  LET c == kept[i].Channel
                      m == kept[j].YearMonth
                  IN  /\ c \in DOMAIN pivot.cell
                      /\ m \in DOMAIN pivot.cell[c]
                      /\ pivot.cell[c][m]
                            = Count(kept, LAMBDA r : r.Channel = c /\ r.YearMonth = m)
                      /\ \E k \in 1..Len(pivot.index) : pivot.index[k] = c
                      /\ \E k \in 1..Len(pivot.columns) : pivot.columns[k] = m

\* two channels and two months, one channel without a ticket in one month
C16_Witness ==
    /\ PivotPassDone
    /\ out.channel_pivot.shown
    /\ Len(out.channel_pivot.columns) >= 2
    /\ \E c \in DOMAIN out.channel_pivot.cell \ {GRAND_TOTAL} :
          /\ \E m \in DOMAIN out.channel_pivot.cell[c] : out.channel_pivot.cell[c][m] = 0
          /\ \E m \in DOMAIN out.channel_pivot.cell[c] : out.channel_pivot.cell[c][m] > 0

\* C17: a channel pivot with a channel row ends with exactly one Grand Total
\* row; its value in each month column is the sum of the column over the
\* channel rows, and the row adds up to the number of filtered tickets that
\* have a channel.
C17_GrandTotalRow ==
    (PivotPassDone /\ out.channel_pivot.shown) =>
        LET pivot == out.channel_pivot
            rows == Len(pivot.index) - 1
        IN  /\ rows >= 1
            /\ pivot.index[rows + 1] = GRAND_TOTAL
            /\ \A k \in 1..rows : pivot.index[k] # GRAND_TOTAL
            /\ \A j \in 1..Len(pivot.columns) :
                  pivot.cell[GRAND_TOTAL][pivot.columns[j]]
                      = ISum([k \in 1..rows |-> pivot.cell[pivot.index[k]][pivot.columns[j]]])
            /\ ISum([j \in 1..Len(pivot.columns) |->
                        pivot.cell[GRAND_TOTAL][pivot.columns[j]]])
                  = Len(WithChannel(out.filtered))

\* a month column in which two channels have tickets
C17_Witness ==
    /\ PivotPassDone
    /\ out.channel_pivot.shown
    /\ Len(out.channel_pivot.index) = 3
    /\ \E j \in 1..Len(out.channel_pivot.columns) :
          LET m == out.channel_pivot.columns[j]
          IN  /\ out.channel_pivot.cell[out.channel_pivot.index[1]][m] >= 1
              /\ out.channel_pivot.cell[out.channel_pivot.index[2]][m] >= 1
              /\ out.channel_pivot.cell[GRAND_TOTAL][m] >= 2

\* T is in descending order of Tickets, equal counts in ascending key order
RankingOrdered(T) ==
    \A k \in 1..(Len(T) - 1) :
        \/ T[k].Tickets > T[k + 1].Tickets
        \/ /\ T[k].Tickets = T[k + 1].Tickets
           /\ NameRank(T[k].Key) < NameRank(T[k + 1].Key)

\* C18: the ranking tables of the assignment groups, assignees, locations
\* and categories are in descending order of ticket count, and rows with
\* equal counts are in ascending lexicographic order of their key.
C18_RankingOrder ==
    (out.ran /\ out.error = "none") =>
        /\ RankingOrdered(out.group_ranking)
        /\ RankingOrdered(out.assignee_perf)
        /\ RankingOrdered(out.location_dist)
        /\ RankingOrdered(out.cat_summary)

KeyCount(keys, name) == Cardinality({i \in 1..Len(keys) : keys[i] = name})

\* T holds the n keys with the largest counts: as many rows as there are
\* keys, up to n, and no key left out has more tickets than a key shown
IsTopN(T, keys, n) ==
    LET names == {keys[i] : i \in 1..Len(keys)} \ {NoValue}
        shown == {T[k].Key : k \in 1..Len(T)}
    IN  /\ Len(T) = (IF Cardinality(names) < n THEN Cardinality(names) ELSE n)
        /\ shown \subseteq names
        /\ \A x \in shown : \A y \in names \ shown :
              KeyCount(keys, y) <= KeyCount(keys, x)

\* C19: each Top N view of each dashboard shows the N keys with the most
\* tickets: Top 15 groups, Top 20 assignees, Top 10 locations and Top 15
\* categories.
C19_TopNByCount ==
    (out.ran /\ out.error = "none") =>
        LET df == out.filtered
        IN  /\ IsTopN(out.top_groups, [i \in 1..Len(df) |-> df[i].Group], 15)
            /\ IsTopN(out.assignee_perf, [i \in 1..Len(df) |-> df[i].AssignedTo], 20)
            /\ IsTopN(out.location_dist, [i \in 1..Len(df) |-> df[i].Location], 10)
            /\ IsTopN(out.top_categories,
                      [i \in 1..Len(df) |-> df[i].Categorization], 15)

\* the string has the form YYYY-MM
IsYearMonth(key) ==
    /\ Len(key) = 7
    /\ key[5] = "-"
    /\ \A i \in {1, 2, 3, 4, 6, 7} : key[i] \in Digits

\* the keys are months of opening dates of df, in chronological order
AreMonthsOf(keys, df) ==
    /\ \A k \in 1..Len(keys) :
          /\ IsYearMonth(keys[k])
          /\ \E i \in 1..Len(df) :
                /\ df[i].Opened # NaT
                /\ to_period_str(df[i].Opened) = keys[k]
    /\ \A k \in 1..(Len(keys) - 1) : StrLess(keys[k], keys[k + 1])

\* C20: the keys of the monthly volume table and the month columns of the
\* channel pivot are the calendar months YYYY-MM of opening dates of filtered
\* tickets, in chronological order; a ticket without an opening date adds no
\* key of another form.
C20_MonthKeys ==
    (out.ran /\ out.error = "none") =>
        /\ AreMonthsOf([k \in 1..Len(out.monthly_tickets) |->
                           out.monthly_tickets[k].YearMonth], out.filtered)
        /\ AreMonthsOf(out.channel_pivot.columns, out.filtered)

\* the record passes the filter of a widget: its value is selected, or the
\* widget has no selection
Selects(chosen, value) == chosen = {} \/ value \in chosen

\* one of the three filters alone
FilterBy(df, sel, widget) ==
    CASE widget = "states" -> SelectSeq(df, LAMBDA r : Selects(sel.states, r.State))
      [] widget = "priorities" ->
             SelectSeq(df, LAMBDA r : Selects(sel.priorities, r.Priority))
      [] widget = "groups" -> SelectSeq(df, LAMBDA r : Selects(sel.groups, r.Group))

FilterOrders ==
    { order \in [1..3 -> {"states", "priorities", "groups"}] :
          \A i, j \in 1..3 : i # j => order[i] # order[j] }

IsSubsequence(sub, df) ==
    \E I \in SUBSET (1..Len(df)) : sub = Subframe(df, I)

\* C21: after any sequence of filter selections the normalized records are
\* those of the file, unchanged, and the filtered records are exactly the
\* records whose state, priority label and group each belong to the selection
\* of their widget (no constraint for an empty selection), whatever the order
\* of the three filters; they are a part of the normalized records.
C21_FilterIsSubsetting ==
    (PassDone /\ cache.ok) =>
        /\ cache.df = load_data(variant, file).df
        /\ out.filtered =
              SelectSeq(cache.df, LAMBDA r : /\ Selects(selected.states, r.State)
                                             /\ Selects(selected.priorities, r.Priority)
                                             /\ Selects(selected.groups, r.Group))
        /\ \A order \in FilterOrders :
              out.filtered =
                  FilterBy(FilterBy(FilterBy(cache.df, selected, order[1]),
                                    selected, order[2]), selected, order[3])
        /\ IsSubsequence(out.filtered, cache.df)

\* a state and a group selected with no priority selected, after an earlier
\* selection, keeping some records and dropping others
C21_Witness ==
    /\ PassDone
    /\ cache.ok
    /\ selected.states # {}
    /\ selected.priorities = {}
    /\ selected.groups # {}
    /\ 0 < Len(out.filtered)
    /\ Len(out.filtered) < Len(cache.df)

\* C22: the normalized records a pass uses are derived from the contents the
\* source table has at that pass: after the contents changed, the next pass
\* does not serve records memoized from the earlier contents.
C22_PassUsesCurrentInput ==
    [][ ((file' = file \/ out' # out) /\ load_data(variant, file').ok) =>
            out'.filtered = ApplyFilters(load_data(variant, file').df, selected') ]_vars

IsOpen(r) == r.State \in {"Active", "Work In Progress", "Awaiting User Info", "New"}

\* C24: in every dashboard a ticket is open exactly when its state is Active,
\* Work In Progress, Awaiting User Info or New: the Open Tickets figure is the
\* number of filtered tickets in these four states, and the rules for open
\* tickets with a resolution date and for orphaned tickets use the same four
\* states.
C24_OpenStates ==
    PassDone =>
        /\ out.open_tickets = Count(out.filtered, IsOpen)
        /\ out.quality.shown =>
              /\ out.quality.open_with_resolution
                    = Count(out.filtered, LAMBDA r : IsOpen(r) /\ r.Resolved # NaT)
              /\ out.quality.orphaned_tickets
                    = Count(out.filtered, LAMBDA r : /\ IsOpen(r)
                                                     /\ r.Group = NoValue
                                                     /\ r.AssignedTo = NoValue)

\* the amount is a number between 0 and the limit
IsWithin(amount, limit) == ~amount.nan /\ 0 <= amount.v /\ amount.v <= limit

\* C25: whatever the filtered records and the at-risk amount (>= 0), the
\* total financial exposure of a pass, the sum of the penalties shown, is at
\* most the at-risk amount, and the exposure percentage lies in [0, 100].
C25_ExposureWithinAtRisk ==
    (ContractPassDone /\ out.buma.shown /\ out.buma.at_risk_amount >= 0) =>
        LET b == out.buma
        IN  /\ IsWithin(b.total_exposure, b.at_risk_amount)
            /\ IsWithin(b.total_financial_exposure, b.at_risk_amount)
            /\ IsWithin(b.updated_total, b.at_risk_amount)
            /\ ~b.exposure_percentage.nan
            /\ 0 <= b.exposure_percentage.n
            /\ b.exposure_percentage.n <= 100 * b.exposure_percentage.d

\* the contract dashboard has run over the four scenario tickets, unfiltered
ScenarioPassDone ==
    /\ ContractPassDone
    /\ file = SubSeq(ScenarioRows, 1, 4)
    /\ selected = NoSelection
    /\ out.quality.shown

\* the resolution compliance of the four ranks, 1 for 1.0 and 0 for 0.0
ScenarioCompliance(rates) ==
    /\ Len(out.buma.sla_performance) = 4
    /\ \A k \in 1..4 :
          LET p == out.buma.sla_performance[k]
          IN  /\ p.Priority = k
              /\ p.Resolution_Compliance.d > 0
              /\ p.Resolution_Compliance.n = rates[k] * p.Resolution_Compliance.d

ScenarioScoreIs100 ==
    /\ out.quality.quality_issues_count = 0
    /\ out.quality.quality_score.n = 100 * out.quality.quality_score.d

\* C26 as stated: in the end-to-end scenario (P1..P4 resolved after 3h, 9h,
\* 30h and 50h, targets 4, 8, 40 and 160) the compliance rate of each of the
\* four priorities is 1.0 and the quality score without anomalies is 100.0.
C26_ScenarioAsStated ==
    ScenarioPassDone => (ScenarioCompliance(<<1, 1, 1, 1>>) /\ ScenarioScoreIs100)

\* C26 amended: in the end-to-end scenario the compliance rate is 1.0 for P1,
\* P3 and P4 and 0.0 for P2, whose ticket took 9h against a target of 8h,
\* and the quality score without anomalies is 100.0.
C26_Scenario ==
    ScenarioPassDone => (ScenarioCompliance(<<1, 0, 1, 1>>) /\ ScenarioScoreIs100)

\* the pass over the four scenario tickets, with its four rows and its score
C26_Witness ==
    /\ ScenarioPassDone
    /\ Len(out.filtered) = 4
    /\ [k \in 1..4 |-> out.filtered[k].SLA_Met] = <<TRUE, FALSE, TRUE, TRUE>>
    /\ Len(out.buma.sla_performance) = 4
    /\ out.quality.quality_score.d = 4

\* a == b and a > 0 on floats: both are False when a NaN is involved
FEq(a, b) == ~a.nan /\ ~b.nan /\ a.v = b.v

FPositive(a) == ~a.nan /\ a.v > 0

\* C27: in every row of the SLA performance table the status is Fail exactly
\* when the resolution compliance of the rank is below 0.90, which for a
\* positive at-risk amount is exactly when the resolution penalty is
\* positive; the SLAs Meeting Minimum figure is the number of rows with
\* status Pass; and the total penalty of a row equals its resolution penalty.
C27_StatusAgreesWithPenalty ==
    ContractPassDone =>
        LET perf == out.buma.sla_performance
        IN  /\ \A i \in 1..Len(perf) :
                  LET p == perf[i]
                      tickets == TicketsOfRank(out.filtered, p.Priority)
                      below == 10 * MetCount(tickets) < 9 * Len(tickets)
                  IN  /\ p.Status \in {"Pass", "Fail"}
                      /\ p.Status = "Fail" <=> below
                      /\ out.buma.at_risk_amount > 0 =>
                             (below <=> FPositive(p.Resolution_Penalty))
                      /\ FEq(p.Total_Penalty, p.Resolution_Penalty)
            /\ out.buma.pass_count
                  = Cardinality({i \in 1..Len(perf) : perf[i].Status = "Pass"})

\* the two ratios are the same number
SameRate(a, b) == a.d > 0 /\ b.d > 0 /\ a.n * b.d = b.n * a.d

\* C28: for the same filtered records the compliance of a priority in the
\* Performance tab (SLA-met count over the count of ticket numbers, by
\* priority label) equals the Resolution_Compliance of that priority in the
\* contract SLA tab (mean of SLA_Met, by extracted rank), and the two tables
\* have the same priorities.
C28_PerformanceMatchesContract ==
    ContractPassDone =>
        LET perf == out.buma.sla_performance
            labels == DOMAIN out.sla_compliance
        IN  /\ {str_extract(l).v : l \in labels}
                   = {perf[i].Priority : i \in 1..Len(perf)}
            /\ Cardinality(labels) = Len(perf)
            /\ \A l \in labels : \A i \in 1..Len(perf) :
                  perf[i].Priority = str_extract(l).v =>
                      SameRate(out.sla_compliance[l].SLA_Compliance,
                               perf[i].Resolution_Compliance)

TicketSum(table) == ISum([k \in 1..Len(table) |-> table[k].Tickets])

\* C29: in every table grouped by one key (month, assignment group, channel,
\* location, categorization) the ticket counts of the groups add up to the
\* number of filtered records, also when the key is empty for some records.
C29_GroupCountsAddUp ==
    PassDone =>
        /\ TicketSum(out.monthly_tickets) = Len(out.filtered)
        /\ TicketSum(out.group_ranking) = Len(out.filtered)
        /\ TicketSum(out.channel_dist) = Len(out.filtered)
        /\ TicketSum(out.location_dist) = Len(out.filtered)
        /\ TicketSum(out.cat_summary) = Len(out.filtered)

\* the records of the loaded export under the generic targets (app, backup)
\* and under the contract targets (app2): those of the running dashboard are
\* the memoized records, the others are normalized from the same rows
GenericRecords == IF variant = "app2" THEN load_data("app", file).df ELSE cache.df

BumaRecords == IF variant = "app2" THEN cache.df ELSE load_data("app2", file).df

\* C30: on the same raw rows the normalizer with the generic targets and the
\* one with the contract targets give the same SLA_Met to every ticket of
\* rank 1 or 2, and a ticket that met the generic target met the contract
\* target; hence the compliance rate, overall and of every rank, is at least
\* as high under the contract targets.
C30_BumaAtLeastGeneric ==
    cache.ok =>
        /\ Len(GenericRecords) = Len(file)
        /\ Len(BumaRecords) = Len(file)
        /\ \A i \in 1..Len(file) :
              LET g == GenericRecords[i]
                  b == BumaRecords[i]
              IN  /\ g.Priority_Numeric = b.Priority_Numeric
                  /\ g.Priority_Numeric \in {1, 2} => (g.SLA_Met <=> b.SLA_Met)
                  /\ g.SLA_Met => b.SLA_Met
        /\ MetCount(GenericRecords) <= MetCount(BumaRecords)
        /\ \A rank \in RanksIn(GenericRecords) :
              /\ Len(TicketsOfRank(GenericRecords, rank))
                    = Len(TicketsOfRank(BumaRecords, rank))
              /\ MetCount(TicketsOfRank(GenericRecords, rank))
                    <= MetCount(TicketsOfRank(BumaRecords, rank))

\* a rank 3 ticket of 30h that met only the contract target, next to a rank
\* 4 ticket of 50h that met both and a rank 2 ticket of 9h that met neither
C30_Witness ==
    /\ cache.ok
    /\ Len(file) >= 4
    /\ \E i \in 1..Len(file) :
          /\ GenericRecords[i].Priority_Numeric = 3
          /\ ~GenericRecords[i].SLA_Met
          /\ BumaRecords[i].SLA_Met
    /\ \E i \in 1..Len(file) :
          /\ GenericRecords[i].Priority_Numeric = 4
          /\ GenericRecords[i].SLA_Met
          /\ BumaRecords[i].SLA_Met
    /\ \E i \in 1..Len(file) :
          /\ GenericRecords[i].Priority_Numeric = 2
          /\ ~GenericRecords[i].SLA_Met
          /\ ~BumaRecords[i].SLA_Met
====
